---- MODULE Spec2Model ----
(***************************************************************************)
(* Model of api.py: the ISS poller thread (fetch_iss_data), the shutdown   *)
(* hook (shutdown_event), process start/stop, and the /iss/sun endpoint    *)
(* (get_iss_sun_exposures), all sharing one SQLite database file.          *)
(*                                                                         *)
(* The database is modelled as its committed content plus the uncommitted  *)
(* rows of the poller's long-lived connection (sqlite3's implicit          *)
(* transaction: opened by the first INSERT, closed only by commit()).      *)
(***************************************************************************)
EXTENDS Integers, Sequences, FiniteSets, TLC

\* ---------------------------------------------------------------- bounds
MaxNow == 2          \* the clock stops ticking here (in ticks)
MaxSeed == 2         \* a seeded position log has at most this many rows
MaxRows == 4         \* the poller's connection holds at most this many position rows

\* ------------------------------------------------------------- constants
SleepSeconds == 20   \* time.sleep(20)
TicksPerSecond == 2  \* datetime.now() is finer than the whole seconds int() keeps

Latitudes == {10}
Longitudes == {-70}
None == [none |-> TRUE]

VARIABLES
    now,                \* wall clock, in ticks
    proc,               \* "running" | "stopped": the server process
    iss_positions,      \* committed rows of table iss_positions (id = index)
    iss_sun_exposures,  \* committed rows of table iss_sun_exposures, by id ASC
    sqlite_sequence,    \* committed AUTOINCREMENT high-water mark of iss_sun_exposures
    in_transaction,     \* poller connection: it holds uncommitted writes (and the write lock)
    conn_positions,     \* poller connection: uncommitted iss_positions rows
    conn_exposures,     \* poller connection: uncommitted iss_sun_exposures rows
    pc,                 \* poller thread: the statement it is about to run
    data,               \* poller local: the decoded payload
    sun_exposure,       \* poller local: the fetchone() of the last window
    delay,              \* seconds slept since the last fetch attempt
    fetched,            \* the thread has attempted a fetch since it started
    sd_pc,              \* shutdown_event: "idle" | "select" | "delete" | "done" | "failed"
    row,                \* shutdown_event local: its fetchone()
    http,               \* the response of the endpoint call in flight, or None
    polygons,           \* committed rows of table polygons, in rowid order
    run_vis,            \* history: the visibility of the last committed sample
    run_events,         \* history: events made durable by the commits of the
                        \* current run of committed samples of that visibility
    reconciled,         \* history: "no" | "deleted" (shutdown_event deleted a start)
                        \* | "restarted" (the process started again after that and
                        \* has committed no daylight sample yet)
    crashed             \* history: the process was killed with a trailing start in
                        \* the event log, which has not changed since

vars == <<now, proc, iss_positions, iss_sun_exposures, sqlite_sequence,
          in_transaction, conn_positions, conn_exposures, pc, data,
          sun_exposure, delay, fetched, sd_pc, row, http, polygons,
          run_vis, run_events, reconciled, crashed>>

store == <<iss_positions, iss_sun_exposures, sqlite_sequence>>
conn == <<in_transaction, conn_positions, conn_exposures>>
locals == <<pc, data, sun_exposure>>
shutdown == <<sd_pc, row>>
samples == <<run_vis, run_events>>

\* ---------------------------------------------------------------- helpers
Last(s) == s[Len(s)]
Front(s) == SubSeq(s, 1, Len(s) - 1)

\* A TEXT column gives an integer TEXT affinity: it is stored, and read back, as a string.
ToText(n) == [text |-> n]

\* int(datetime.now().timestamp()): whole epoch seconds
EpochSecond(t) == t \div TicksPerSecond

\* What the poller's connection reads: committed rows and its own uncommitted ones.
ConnExposures == iss_sun_exposures \o conn_exposures

\* ------------------------------------------------------- telemetry source
Visibilities == {"daylight", "eclipsed"}
AllKeys == {"timestamp", "latitude", "longitude", "visibility"}

\* response.json(): the documented payload, or one with a key missing
Payloads(t) ==
    { [keys |-> AllKeys, timestamp |-> EpochSecond(t), latitude |-> la,
       longitude |-> lo, visibility |-> v] :
         la \in Latitudes, lo \in Longitudes, v \in Visibilities }
    \cup
    { [keys |-> AllKeys \ {"visibility"}, timestamp |-> EpochSecond(t),
       latitude |-> la, longitude |-> lo, visibility |-> ""] :
         la \in Latitudes, lo \in Longitudes }
    \cup
    { [keys |-> AllKeys \ {"latitude"}, timestamp |-> EpochSecond(t),
       latitude |-> 0, longitude |-> lo, visibility |-> v] :
         lo \in Longitudes, v \in Visibilities }

\* ------------------------------------------------------------ the poller
\* A loop whose handlers re-raise: the thread ends at the first failed cycle.
OnErrorThreadDies == "dead"

\* except ...: logger.error(...); finally: time.sleep(20) -- where an exception
\* raised inside the try block sends the thread
OnError == "sleep"

\* The statement after "with requests.get(...)" returned and json() decoded.
AfterFetch == "select"

\* A decision that forgets the last marker on a daylight sample.
ExposureToInsertNoDebounce(last, visibility) ==
    IF visibility = "daylight" THEN "start"
    ELSE IF last # None /\ last.window = "start" THEN "end" ELSE "none"

\* A decision that closes a window on every non-daylight sample not preceded
\* by an end.
ExposureToInsertEndOnEmpty(last, visibility) ==
    IF visibility = "daylight"
    THEN IF last = None \/ last.window = "end" THEN "start" ELSE "none"
    ELSE IF last = None \/ last.window = "start" THEN "end" ELSE "none"

\* Lines 153-165: which marker, if any, the cycle inserts.
ExposureToInsert(last, visibility) ==
    IF visibility = "daylight"
    THEN IF last = None \/ last.window = "end" THEN "start" ELSE "none"
    ELSE IF last # None /\ last.window = "start" THEN "end" ELSE "none"

\* AUTOINCREMENT: one more than the largest id the table ever held, as this
\* connection sees it.
NextExposureId ==
    (IF Len(conn_exposures) = 0 THEN sqlite_sequence ELSE Last(conn_exposures).id) + 1

Running == proc = "running"

\* A cycle that writes its snapshot row before it checks the response.
FetchFailsAfterInsert ==
    /\ Running /\ pc = "fetch"
    /\ Len(iss_positions) + Len(conn_positions) < MaxRows
    /\ pc' = OnError
    /\ delay' = 0 /\ fetched' = TRUE
    /\ conn_positions' = Append(conn_positions,
           [timestamp |-> ToText(EpochSecond(now)), latitude |-> 0, longitude |-> 0])
    /\ in_transaction' = TRUE
    /\ UNCHANGED <<now, polygons, samples, reconciled, crashed, proc, store, conn_exposures, data, sun_exposure, shutdown, http>>

\* requests.get / raise_for_status / response.json() raise: RequestException
\* (transport error, non-success status) or a decoding error. Nothing else ran.
FetchFails ==
    /\ Running /\ pc = "fetch"
    /\ pc' = OnError
    /\ delay' = 0 /\ fetched' = TRUE
    /\ UNCHANGED <<now, polygons, samples, reconciled, crashed, proc, store, conn, data, sun_exposure, shutdown, http>>

FetchReturns ==
    /\ Running /\ pc = "fetch"
    /\ Len(iss_positions) + Len(conn_positions) < MaxRows
    /\ \E d \in Payloads(now) : data' = d
    /\ pc' = AfterFetch
    /\ delay' = 0 /\ fetched' = TRUE
    /\ UNCHANGED <<now, polygons, samples, reconciled, crashed, proc, store, conn, sun_exposure, shutdown, http>>

\* Whether a statement sent to the store raises (sqlite3.Error: the file is
\* locked, full, unreadable) is the store's choice.
StoreRaises == BOOLEAN

\* cursor.execute("SELECT window ... ORDER BY id DESC LIMIT 1"); fetchone()
SelectLastWindow ==
    /\ Running /\ pc = "select"
    /\ \E raises \in StoreRaises :
         IF ~raises
         THEN /\ sun_exposure' = (IF Len(ConnExposures) = 0 THEN None
                                  ELSE [window |-> Last(ConnExposures).window])
              /\ pc' = "insert_position"
              /\ UNCHANGED data
         ELSE /\ pc' = OnError
              /\ data' = None /\ sun_exposure' = None
    /\ UNCHANGED <<now, polygons, samples, reconciled, crashed, proc, store, conn, delay, fetched, shutdown, http>>

\* cursor.execute("INSERT INTO iss_positions ...", (data['timestamp'], ...)):
\* a KeyError while the parameters are built or an error of the store, else
\* the first write of the cycle, which opens the implicit transaction.
InsertPosition ==
    /\ Running /\ pc = "insert_position"
    /\ \E raises \in StoreRaises :
         IF {"timestamp", "latitude", "longitude"} \subseteq data.keys /\ ~raises
         THEN /\ conn_positions' = Append(conn_positions,
                     [timestamp |-> ToText(data.timestamp),
                      latitude |-> data.latitude, longitude |-> data.longitude])
              /\ in_transaction' = TRUE
              /\ pc' = "decide"
              /\ UNCHANGED <<data, sun_exposure>>
         ELSE /\ pc' = OnError
              /\ data' = None /\ sun_exposure' = None
              /\ UNCHANGED <<conn_positions, in_transaction>>
    /\ UNCHANGED <<now, polygons, samples, reconciled, crashed, proc, store, conn_exposures, delay, fetched, shutdown, http>>

\* Lines 153-165: data['visibility'] (a KeyError if absent), then at most one
\* INSERT INTO iss_sun_exposures, which the store may refuse.
InsertExposure ==
    /\ Running /\ pc = "decide"
    /\ \E raises \in StoreRaises :
         LET w == ExposureToInsert(sun_exposure, data.visibility) IN
         IF "visibility" \in data.keys /\ ~(raises /\ w # "none")
         THEN /\ conn_exposures' =
                     IF w = "none" THEN conn_exposures
                     ELSE Append(conn_exposures,
                                 [id |-> NextExposureId,
                                  timestamp |-> ToText(data.timestamp), window |-> w])
              /\ pc' = "commit"
              /\ UNCHANGED <<data, sun_exposure>>
         ELSE /\ pc' = OnError
              /\ data' = None /\ sun_exposure' = None
              /\ UNCHANGED conn_exposures
    /\ UNCHANGED <<now, polygons, samples, reconciled, crashed, proc, store, in_transaction, conn_positions, delay, fetched,
                   shutdown, http>>

\* A cycle that commits right after the snapshot insert: the events it wrote
\* stay uncommitted.
CommitSnapshotsOnly ==
    /\ Running /\ pc = "commit"
    /\ iss_positions' = iss_positions \o conn_positions
    /\ conn_positions' = <<>>
    /\ in_transaction' = (Len(conn_exposures) # 0)
    /\ pc' = "sleep"
    /\ data' = None /\ sun_exposure' = None
    /\ UNCHANGED <<now, polygons, samples, reconciled, crashed, proc, iss_sun_exposures,
                   sqlite_sequence, conn_exposures, delay, fetched, shutdown, http>>

\* conn.commit(): everything the connection wrote since its last commit
\* becomes durable at once.
Commit ==
    /\ Running /\ pc = "commit"
    /\ iss_positions' = iss_positions \o conn_positions
    /\ iss_sun_exposures' = iss_sun_exposures \o conn_exposures
    /\ sqlite_sequence' = (IF Len(conn_exposures) = 0 THEN sqlite_sequence
                           ELSE Last(conn_exposures).id)
    /\ in_transaction' = FALSE
    /\ conn_positions' = <<>> /\ conn_exposures' = <<>>
    /\ pc' = "sleep"
    /\ data' = None /\ sun_exposure' = None
    /\ run_vis' = data.visibility
    /\ run_events' = (IF data.visibility = run_vis THEN run_events ELSE 0)
                         + Len(conn_exposures)
    /\ reconciled' = (IF reconciled = "restarted" /\ data.visibility = "daylight"
                      THEN "no" ELSE reconciled)
    /\ crashed' = (crashed /\ conn_exposures = <<>>)
    /\ UNCHANGED <<now, polygons, proc, delay, fetched, shutdown, http>>

\* conn.commit() raises (the store is busy or failing): the bare except logs
\* it; nothing rolls the transaction back.
CommitFails ==
    /\ Running /\ pc = "commit"
    /\ pc' = OnError
    /\ data' = None /\ sun_exposure' = None
    /\ UNCHANGED <<now, polygons, samples, reconciled, crashed, proc, store, conn, delay, fetched, shutdown, http>>

\* finally: time.sleep(20), then the next iteration of while True
Sleep ==
    /\ Running /\ pc = "sleep"
    /\ delay' = delay + SleepSeconds
    /\ pc' = "fetch"
    /\ UNCHANGED <<now, polygons, samples, reconciled, crashed, proc, store, conn, data, sun_exposure, fetched, shutdown, http>>

Poller ==
    \/ FetchFails
    \/ FetchReturns
    \/ SelectLastWindow
    \/ InsertPosition
    \/ InsertExposure
    \/ Commit
    \/ CommitFails
    \/ Sleep

\* ------------------------------------------------------ shutdown_event
\* Lines 215-221: a fresh connection reads the committed most recent event.
ShutdownSelect ==
    /\ Running /\ sd_pc = "select"
    /\ row' = (IF Len(iss_sun_exposures) = 0 THEN None
               ELSE [id |-> Last(iss_sun_exposures).id,
                     window |-> Last(iss_sun_exposures).window])
    /\ sd_pc' = "delete"
    /\ UNCHANGED <<now, polygons, samples, reconciled, crashed, proc, store, conn, locals, delay, fetched, http>>

\* A reconciler that deletes whatever row is the most recent.
ShouldDeleteAnyRow(r) == r # None

\* if row and row[1] == 'start'
ShouldDelete(r) == r # None /\ r.window = "start"

\* DELETE FROM iss_sun_exposures WHERE id = ?
DeleteById(rows, id) == SelectSeq(rows, LAMBDA e : e.id # id)

\* Lines 223-230: delete the row that was read, by its id, and commit. The
\* DELETE needs the write lock, which an open transaction of the poller holds.
ShutdownDelete ==
    /\ Running /\ sd_pc = "delete"
    /\ IF ShouldDelete(row)
       THEN /\ ~in_transaction
            /\ iss_sun_exposures' = DeleteById(iss_sun_exposures, row.id)
            /\ reconciled' = "deleted"
            /\ crashed' = FALSE
       ELSE UNCHANGED <<iss_sun_exposures, reconciled, crashed>>
    /\ sd_pc' = "done"
    /\ UNCHANGED <<now, polygons, samples, proc, iss_positions, sqlite_sequence, conn, locals, delay,
                   fetched, row, http>>

\* The DELETE waits for the poller's write lock and gives up ("database is
\* locked"): shutdown_event raises, nothing is deleted.
ShutdownLocked ==
    /\ Running /\ sd_pc = "delete"
    /\ ShouldDelete(row) /\ in_transaction
    /\ sd_pc' = "failed"
    /\ UNCHANGED <<now, polygons, samples, reconciled, crashed, proc, store, conn, locals, delay, fetched, row, http>>

\* ----------------------------------------------------------- the process
\* The server begins a graceful stop: the shutdown hook is called. Nothing
\* signals the daemon thread, which keeps running.
BeginShutdown ==
    /\ Running /\ sd_pc = "idle"
    /\ sd_pc' = "select"
    /\ UNCHANGED <<now, polygons, samples, reconciled, crashed, proc, store, conn, locals, delay, fetched, row, http>>

\* The process is gone: the daemon thread dies wherever it is and its open
\* transaction is never committed.
ProcessGone ==
    /\ proc' = "stopped"
    /\ pc' = "dead" /\ data' = None /\ sun_exposure' = None
    /\ in_transaction' = FALSE /\ conn_positions' = <<>> /\ conn_exposures' = <<>>
    /\ delay' = 0 /\ fetched' = FALSE
    /\ sd_pc' = "idle" /\ row' = None
    /\ http' = None
    /\ UNCHANGED <<now, polygons, samples, reconciled, store>>

\* The interpreter exits after the shutdown hook returned or raised.
Exit ==
    /\ Running /\ sd_pc \in {"done", "failed"}
    /\ ProcessGone
    /\ UNCHANGED crashed

\* kill -9, power loss: no shutdown hook runs.
Crash ==
    /\ Running /\ sd_pc = "idle"
    /\ ProcessGone
    /\ crashed' = (Len(iss_sun_exposures) > 0 /\ Last(iss_sun_exposures).window = "start")

\* startup_event: init_database() keeps existing tables; a new poller thread
\* with a new connection starts.
Startup ==
    /\ proc = "stopped"
    /\ proc' = "running"
    /\ pc' = "fetch"
    /\ reconciled' = (IF reconciled = "deleted" THEN "restarted" ELSE reconciled)
    /\ UNCHANGED crashed
    /\ UNCHANGED <<now, polygons, samples, store, conn, data, sun_exposure, delay, fetched, shutdown, http>>

Tick ==
    /\ now < MaxNow
    /\ now' = now + 1
    /\ UNCHANGED <<proc, store, conn, locals, delay, fetched, shutdown, http, polygons,
                   samples, reconciled, crashed>>

\* ------------------------------------------------------------- GET /iss/sun
ErrorResponse == [kind |-> "message", message |-> "An error occured"]

\* A loop over range(0, len(rows) - 2, 2): the last pair is never visited.
RECURSIVE PairLoopStopsEarly(_, _, _)
PairLoopStopsEarly(rows, i, result) ==
    IF i >= Len(rows) - 2 THEN [raised |-> FALSE, result |-> result]
    ELSE IF rows[i + 1].window # "start" \/ rows[i + 2].window # "end"
         THEN [raised |-> TRUE, result |-> result]
    ELSE PairLoopStopsEarly(rows, i + 2,
                  Append(result, [start |-> rows[i + 1].timestamp,
                                  end |-> rows[i + 2].timestamp]))

\* Lines 248-259: for i in range(0, len(rows) - 1, 2), 0-based i. raised is
\* the AssertionError of a pair that is not (start, end).
RECURSIVE PairLoop(_, _, _)
PairLoop(rows, i, result) ==
    IF i >= Len(rows) - 1 THEN [raised |-> FALSE, result |-> result]
    ELSE IF rows[i + 1].window # "start" \/ rows[i + 2].window # "end"
         THEN [raised |-> TRUE, result |-> result]
    ELSE PairLoop(rows, i + 2,
                  Append(result, [start |-> rows[i + 1].timestamp,
                                  end |-> rows[i + 2].timestamp]))

\* An open window whose end was computed once, when the window opened.
OpenWindowCached(rows, t) ==
    IF Len(rows) # 0 /\ Last(rows).window = "start"
    THEN <<[start |-> Last(rows).timestamp, end |-> Last(rows).timestamp.text]>>
    ELSE <<>>

\* Lines 261-265: the open window of a trailing start
OpenWindow(rows, t) ==
    IF Len(rows) # 0 /\ Last(rows).window = "start"
    THEN <<[start |-> Last(rows).timestamp, end |-> EpochSecond(t)]>>
    ELSE <<>>

\* get_iss_sun_exposures under @log: the body's result, or the wrapper's
\* error message when the body raised.
get_iss_sun_exposures(rows, t) ==
    LET closed == PairLoop(rows, 0, <<>>) IN
    IF closed.raised THEN ErrorResponse
    ELSE [kind |-> "sun_exposures",
          sun_exposures |-> closed.result \o OpenWindow(rows, t)]

\* A client calls GET /iss/sun: select() reads the committed rows on its own
\* connection.
GetIssSunExposures ==
    /\ Running /\ sd_pc = "idle" /\ http = None
    /\ http' = get_iss_sun_exposures(iss_sun_exposures, now)
    /\ UNCHANGED <<now, polygons, samples, reconciled, crashed, proc, store, conn, locals, delay,
                   fetched, shutdown>>

\* The response leaves the server.
Respond ==
    /\ http # None
    /\ http' = None
    /\ UNCHANGED <<now, polygons, samples, reconciled, crashed, proc, store, conn, locals, delay,
                   fetched, shutdown>>

\* -------------------------------------------------------- GET /iss/position
NoPosition == [kind |-> "message", message |-> "No position data available"]

\* Reads the row inserted first instead of the one inserted last.
get_iss_position_oldest(rows) ==
    IF Len(rows) > 0
    THEN [kind |-> "position", latitude |-> rows[1].latitude,
          longitude |-> rows[1].longitude]
    ELSE NoPosition

\* "... ORDER BY id DESC LIMIT 1" over a table whose rows are kept by id: the
\* row of the greatest id, or no row.
OrderByIdDescLimit1(rows) ==
    LET ids == 1..Len(rows) IN
    IF ids = {} THEN <<>>
    ELSE <<rows[CHOOSE i \in ids : \A j \in ids : j <= i]>>

\* The body of the handler over the rows its SELECT returns.
get_iss_position(table) ==
    LET rows == OrderByIdDescLimit1(table) IN
    IF Len(rows) > 0
    THEN [kind |-> "position", latitude |-> rows[1].latitude,
          longitude |-> rows[1].longitude]
    ELSE NoPosition

\* GET /iss/position: select() opens its own connection, so it reads the
\* committed rows.
GetIssPosition ==
    /\ Running /\ sd_pc = "idle" /\ http = None
    /\ http' = get_iss_position(iss_positions)
    /\ UNCHANGED <<now, polygons, samples, reconciled, crashed, proc, store, conn, locals, delay,
                   fetched, shutdown>>

\* ------------------------------------------------------------ /2d-polygons
Message(m) == [kind |-> "message", message |-> m]

\* The requests a client sends: a PolygonRequest has a uuid, a wkt and a color.
Uuids == {"u1", "u2"}
Colors == {"red"}
Square == "POLYGON ((0 0, 1 0, 1 1, 0 1, 0 0))"
Triangle == "POLYGON ((0 0, 2 0, 0 2, 0 0))"
SquareZ == "POLYGON Z ((0 0 1, 1 0 1, 1 1 1, 0 1 1, 0 0 1))"
Bowtie == "POLYGON ((0 0, 1 1, 1 0, 0 1, 0 0))"
Wkts == {Square, Triangle, SquareZ, Bowtie, "POLYGON EMPTY", "POINT (0 0)", "polygon"}
PolygonRequests == [uuid : Uuids, wkt : Wkts, color : Colors]

\* shapely's from_wkt on these strings: it raises on text that is not WKT,
\* else the geometry with the attributes the validator reads.
from_wkt(wkt) ==
    LET polygon(valid, empty, z) ==
            [raises |-> FALSE, type |-> "Polygon", is_valid |-> valid,
             is_empty |-> empty, has_z |-> z]
    IN CASE wkt \in {Square, Triangle} -> polygon(TRUE, FALSE, FALSE)
         [] wkt = SquareZ -> polygon(TRUE, FALSE, TRUE)
         [] wkt = Bowtie -> polygon(FALSE, FALSE, FALSE)
         [] wkt = "POLYGON EMPTY" -> polygon(TRUE, TRUE, FALSE)
         [] wkt = "POINT (0 0)" ->
                [raises |-> FALSE, type |-> "Point", is_valid |-> TRUE,
                 is_empty |-> FALSE, has_z |-> FALSE]
         [] OTHER ->
                [raises |-> TRUE, type |-> "", is_valid |-> FALSE,
                 is_empty |-> FALSE, has_z |-> FALSE]

is_valid_2d_wkt_polygon(wkt) ==
    LET geometry == from_wkt(wkt) IN
    IF geometry.raises THEN FALSE
    ELSE IF geometry.type = "Polygon" /\ geometry.is_valid /\ ~geometry.is_empty
         THEN (IF geometry.has_z THEN FALSE ELSE TRUE)
         ELSE FALSE

\* cursor.execute("INSERT INTO polygons ..."): uuid is UNIQUE, so a second row
\* of a uuid raises sqlite3.IntegrityError; else one row is appended.
ExecuteInsert(table, polygon) ==
    IF \E i \in 1..Len(table) : table[i].uuid = polygon.uuid
    THEN [raised |-> TRUE, rowcount |-> 0, table |-> table]
    ELSE [raised |-> FALSE, rowcount |-> 1, table |-> Append(table, polygon)]

\* cursor.execute("DELETE FROM polygons WHERE uuid = ?")
ExecuteDelete(table, uuid) ==
    LET kept == SelectSeq(table, LAMBDA r : r.uuid # uuid) IN
    [raised |-> FALSE, rowcount |-> Len(table) - Len(kept), table |-> kept]

\* The poller's connection holds the write lock through its sleep or its
\* fetch: longer than the 5 s a new connection waits for it.
WriteLockTimesOut == in_transaction /\ pc \in {"sleep", "fetch"}

\* cud_operation on a connection of its own: the statement runs and is
\* committed when no other connection holds the write lock; it raises
\* "database is locked" when the wait for the lock times out; it waits
\* otherwise.
cud_operation(executed) ==
    (IF ~in_transaction THEN {executed} ELSE {})
    \cup (IF WriteLockTimesOut
          THEN {[raised |-> TRUE, rowcount |-> 0, table |-> polygons]}
          ELSE {})

\* The answer of an endpoint of /2d-polygons, with the call it answers.
Answer(call, body) == [kind |-> "2d-polygons", call |-> call, body |-> body]

\* POST /2d-polygons
PostPolygon ==
    /\ Running /\ sd_pc = "idle" /\ http = None
    /\ \E polygon \in PolygonRequests :
         LET call == [op |-> "POST", polygon |-> polygon] IN
         IF is_valid_2d_wkt_polygon(polygon.wkt)
         THEN \E done \in cud_operation(ExecuteInsert(polygons, polygon)) :
                /\ polygons' = done.table
                /\ http' = Answer(call,
                       IF done.raised THEN ErrorResponse
                       ELSE IF done.rowcount # 0 THEN Message(polygon.uuid)
                       ELSE Message("No affected rows"))
         ELSE /\ http' = Answer(call, Message("The wkt string is not a valid 2D polygon"))
              /\ UNCHANGED polygons
    /\ UNCHANGED <<now, samples, reconciled, crashed, proc, store, conn, locals, delay,
                   fetched, shutdown>>

\* DELETE /2d-polygons/{uuid}
DeletePolygon ==
    /\ Running /\ sd_pc = "idle" /\ http = None
    /\ \E uuid \in Uuids :
         \E done \in cud_operation(ExecuteDelete(polygons, uuid)) :
            /\ polygons' = done.table
            /\ http' = Answer([op |-> "DELETE", uuid |-> uuid],
                   IF done.raised THEN ErrorResponse
                   ELSE IF done.rowcount # 0 THEN Message(uuid)
                   ELSE Message("No affected rows"))
    /\ UNCHANGED <<now, samples, reconciled, crashed, proc, store, conn, locals, delay,
                   fetched, shutdown>>

\* GET /2d-polygons: "SELECT uuid, color, wkt FROM polygons" scans the table
\* in rowid order.
get_2d_polygons(table) ==
    [kind |-> "polygons",
     polygons |-> [i \in 1..Len(table) |->
                     [uuid |-> table[i].uuid, color |-> table[i].color,
                      wkt |-> table[i].wkt]]]

GetPolygons ==
    /\ Running /\ sd_pc = "idle" /\ http = None
    /\ http' = Answer([op |-> "LIST"], get_2d_polygons(polygons))
    /\ UNCHANGED <<now, polygons, samples, reconciled, crashed, proc, store, conn, locals,
                   delay, fetched, shutdown>>

\* GET /2d-polygons/{uuid} (the second get_2d_polygons of the source)
get_2d_polygon(table, uuid) ==
    LET rows == SelectSeq(table, LAMBDA r : r.uuid = uuid) IN
    IF Len(rows) > 0
    THEN [kind |-> "polygon", uuid |-> rows[1].uuid, color |-> rows[1].color,
          wkt |-> rows[1].wkt]
    ELSE Message("No polygon with the given uuid exists")

GetPolygon ==
    /\ Running /\ sd_pc = "idle" /\ http = None
    /\ \E uuid \in Uuids :
         http' = Answer([op |-> "GET", uuid |-> uuid], get_2d_polygon(polygons, uuid))
    /\ UNCHANGED <<now, polygons, samples, reconciled, crashed, proc, store, conn, locals,
                   delay, fetched, shutdown>>

\* ------------------------------------------------------------ specification
Init ==
    /\ now = 0
    /\ proc = "running"
    /\ iss_positions = <<>> /\ iss_sun_exposures = <<>> /\ sqlite_sequence = 0
    /\ in_transaction = FALSE /\ conn_positions = <<>> /\ conn_exposures = <<>>
    /\ pc = "fetch" /\ data = None /\ sun_exposure = None
    /\ delay = 0 /\ fetched = FALSE
    /\ sd_pc = "idle" /\ row = None
    /\ http = None
    /\ polygons = <<>>
    /\ run_vis = "" /\ run_events = 0
    /\ reconciled = "no"
    /\ crashed = FALSE

\* Everything but a graceful stop: the poller is the only writer.
NextPoller ==
    \/ Tick
    \/ Poller
    \/ GetIssSunExposures
    \/ GetIssPosition
    \/ Respond
    \/ Crash
    \/ Startup

Next ==
    \/ NextPoller
    \/ BeginShutdown
    \/ ShutdownSelect
    \/ ShutdownDelete
    \/ ShutdownLocked
    \/ Exit

Spec == Init /\ [][Next]_vars

SpecPoller == Init /\ [][NextPoller]_vars

\* The running process with no way to stop: what the poller thread does when
\* it is scheduled for ever.
NextForever ==
    \/ Tick
    \/ Poller
    \/ GetIssSunExposures
    \/ GetIssPosition
    \/ Respond

SpecPollerFair == Init /\ [][NextForever]_vars /\ WF_vars(Poller)

\* A position log left by earlier runs of the process: rows in insertion
\* order whose timestamps need not increase and whose coordinates differ.
SeedLatitudes == Latitudes \cup {20}
SeedPositions ==
    [timestamp : {ToText(0), ToText(1)}, latitude : SeedLatitudes, longitude : Longitudes]
SeedLogs == UNION {[1..n -> SeedPositions] : n \in 0..MaxSeed}

InitPosition ==
    /\ now = 0
    /\ proc = "running"
    /\ iss_positions \in SeedLogs /\ iss_sun_exposures = <<>> /\ sqlite_sequence = 0
    /\ in_transaction = FALSE /\ conn_positions = <<>> /\ conn_exposures = <<>>
    /\ pc = "fetch" /\ data = None /\ sun_exposure = None
    /\ delay = 0 /\ fetched = FALSE
    /\ sd_pc = "idle" /\ row = None
    /\ http = None
    /\ polygons = <<>>
    /\ run_vis = "" /\ run_events = 0
    /\ reconciled = "no"
    /\ crashed = FALSE

\* The poller appending to such a log while GET /iss/position is served.
NextPosition ==
    \/ Poller
    \/ GetIssPosition
    \/ Respond

SpecPosition == InitPosition /\ [][NextPosition]_vars

\* The polygon endpoints served while the poller thread runs.
NextPolygons ==
    \/ Poller
    \/ PostPolygon
    \/ DeletePolygon
    \/ GetPolygons
    \/ GetPolygon
    \/ Respond

SpecPolygons == Init /\ [][NextPolygons]_vars

\* ------------------------------------------------------------------ claims
\* Markers read in id order are start, end, start, ...: an odd place holds a
\* start and an even place an end.
Alternates(rows) ==
    \A i \in 1..Len(rows) : rows[i].window = (IF i % 2 = 1 THEN "start" ELSE "end")

\* C1: with the poller as the only writer, the committed event log always
\* alternates start, end, start, ... from a start, whatever mix of failed and
\* successful cycles (and of visibilities) has run.
C1_PollerKeepsAlternation == Alternates(iss_sun_exposures)

C1_Witness ==
    /\ Len(iss_sun_exposures) = 3
    /\ Len(iss_positions) = 4

\* C2: no step of any interleaving of a poll cycle with shutdown_event turns
\* an alternating event log into one that does not alternate.
C2_CycleAtomicWithShutdown ==
    [][Alternates(iss_sun_exposures) => Alternates(iss_sun_exposures')]_vars

\* A step in which the fetch of a cycle raised: the thread left the fetch
\* with no payload and the process is still there.
FetchRaised == pc = "fetch" /\ pc' # "fetch" /\ data' = None /\ proc' = "running"

\* The thread leaves its sleep in a process that is still there.
SleepOver == pc = "sleep" /\ pc' # "sleep" /\ proc' = "running"

\* C3: a cycle whose fetch raises changes neither log (nor anything the
\* connection holds) and leaves the thread at its sleep, from which it goes
\* to the next fetch after the 20-unit delay.
C3_FailedFetchChangesNothing ==
    [][ /\ FetchRaised => (pc' = "sleep" /\ UNCHANGED <<store, conn>>)
        /\ SleepOver => (pc' = "fetch" /\ delay' = delay + SleepSeconds) ]_vars

C3_Witness ==
    /\ pc = "fetch" /\ fetched /\ data = None
    /\ delay = SleepSeconds
    /\ Len(iss_positions) = 1 /\ Len(iss_sun_exposures) = 1
    /\ ~in_transaction

\* C4: the committed logs only ever grow by the one snapshot of the cycle
\* that commits, with at most the one event of that cycle: rows of a cycle
\* that failed never become visible.
C4_CycleIsAllOrNothing ==
    [][ iss_positions' # iss_positions =>
          /\ Len(iss_positions') = Len(iss_positions) + 1
          /\ Len(iss_sun_exposures') <= Len(iss_sun_exposures) + 1 ]_vars

\* C5: scheduled fairly, the poller attempts a fetch again and again, whatever
\* the cycles before did, and every fetch attempt but the thread's first comes
\* after exactly one 20-unit sleep.
C5_LoopNeverStops ==
    /\ []<><<FetchFails \/ FetchReturns>>_vars
    /\ [][ (pc = "fetch" /\ pc' # "fetch" /\ fetched) => delay = SleepSeconds ]_vars

C5_Witness ==
    /\ pc = "fetch" /\ fetched /\ delay = SleepSeconds
    /\ in_transaction /\ Len(conn_exposures) = 1

\* No other writer is active: the poller is between cycles and holds no
\* uncommitted write, and the row shutdown_event read is still the most recent.
NoOtherWriter ==
    /\ pc \in {"fetch", "sleep"} /\ ~in_transaction
    /\ row = (IF Len(iss_sun_exposures) = 0 THEN None
              ELSE [id |-> Last(iss_sun_exposures).id,
                    window |-> Last(iss_sun_exposures).window])

\* C6: shutdown_event finishing with no other writer active removes exactly
\* a trailing start, after which GET /iss/sun reports no open window (nothing
\* at all for a log that held only that start), and changes nothing when the
\* log is empty or ends with an end.
C6_ReconcilerDeletesTrailingStart ==
    [][ (sd_pc = "delete" /\ sd_pc' # "delete" /\ proc' = "running" /\ NoOtherWriter) =>
          /\ sd_pc' = "done"
          /\ IF Len(iss_sun_exposures) # 0 /\ Last(iss_sun_exposures).window = "start"
             THEN /\ iss_sun_exposures' = Front(iss_sun_exposures)
                  /\ OpenWindow(iss_sun_exposures', now') = <<>>
                  /\ Len(iss_sun_exposures) = 1 =>
                       get_iss_sun_exposures(iss_sun_exposures', now') =
                           [kind |-> "sun_exposures", sun_exposures |-> <<>>]
             ELSE iss_sun_exposures' = iss_sun_exposures
          /\ UNCHANGED <<iss_positions, sqlite_sequence>> ]_vars

C6_Witness ==
    /\ sd_pc = "done" /\ ShouldDelete(row)
    /\ pc = "sleep" /\ ~in_transaction
    /\ Len(iss_sun_exposures) = 2 /\ sqlite_sequence = 3

\* C7: from the start of shutdown_event to the exit of the process nothing
\* but shutdown_event changes a log, and the event log at exit has no
\* trailing start.
C7_ReconcilerIsSoleWriter ==
    [][ /\ (sd_pc # "idle" /\ sd_pc' = sd_pc) =>
               UNCHANGED <<iss_positions, iss_sun_exposures>>
        /\ (sd_pc = "done" /\ proc' = "stopped") =>
               (Len(iss_sun_exposures') = 0 \/ Last(iss_sun_exposures').window # "start")
      ]_vars

\* A step in which GET /iss/sun answers.
SunCall == http = None /\ http' # None /\ http'.kind # "position" /\ http' # NoPosition

\* C8: for an event log that does not alternate, GET /iss/sun answers with
\* the error message, never with a list of windows.
C8_BrokenLogIsAFault ==
    [][ (SunCall /\ ~Alternates(iss_sun_exposures)) => http'.kind = "message" ]_vars

\* The windows of the pairs (2i-1, 2i) of the first 2k events.
ClosedWindows(rows, k) ==
    [i \in 1..k |-> [start |-> rows[2 * i - 1].timestamp, end |-> rows[2 * i].timestamp]]

\* C9: for an alternating log of even length 2k, GET /iss/sun answers with
\* exactly the k windows of its pairs, in order (none for the empty log), each
\* with a start and an end.
C9_ClosedWindowsInOrder ==
    [][ (SunCall /\ Alternates(iss_sun_exposures) /\ Len(iss_sun_exposures) % 2 = 0) =>
          /\ http'.kind = "sun_exposures"
          /\ http'.sun_exposures =
                 ClosedWindows(iss_sun_exposures, Len(iss_sun_exposures) \div 2)
          /\ \A i \in 1..Len(http'.sun_exposures) :
                 DOMAIN http'.sun_exposures[i] = {"start", "end"} ]_vars

C9_Witness ==
    /\ http # None /\ http.kind = "sun_exposures"
    /\ Len(http.sun_exposures) = 2
    /\ Len(iss_sun_exposures) = 4
    /\ http.sun_exposures[1].start = iss_sun_exposures[1].timestamp
    /\ http.sun_exposures[2].end = iss_sun_exposures[4].timestamp

\* A call of GET /iss/sun on an alternating log that ends with a start.
OpenCall ==
    /\ SunCall /\ Alternates(iss_sun_exposures)
    /\ Len(iss_sun_exposures) % 2 = 1

\* The answer to a call: the closed windows, then the open one ending at e.
WithOpenWindow(rows, e) ==
    [kind |-> "sun_exposures",
     sun_exposures |-> ClosedWindows(rows, Len(rows) \div 2)
                         \o <<[start |-> Last(rows).timestamp, end |-> e]>>]

\* C10 as stated: the open window ends at the clock value of the call, and a
\* call at any other clock value answers with another end.
C10_OpenWindowEndsAtClock ==
    [][ OpenCall =>
          /\ \E e \in 0..MaxNow : http' = WithOpenWindow(iss_sun_exposures, e)
          /\ \A t \in 0..MaxNow :
                 t # now => get_iss_sun_exposures(iss_sun_exposures, t) # http'
          /\ UNCHANGED <<store, conn>> ]_vars

\* C10 amended: the open window ends at the whole epoch second of the call,
\* and a call in any other second answers with another end; the call stores
\* nothing.
C10_OpenWindowEndsAtEpochSecond ==
    [][ OpenCall =>
          /\ http' = WithOpenWindow(iss_sun_exposures, EpochSecond(now))
          /\ \A t \in 0..MaxNow :
                 EpochSecond(t) # EpochSecond(now) =>
                     get_iss_sun_exposures(iss_sun_exposures, t) # http'
          /\ UNCHANGED <<store, conn>> ]_vars

C10_Witness ==
    /\ http # None /\ http.kind = "sun_exposures"
    /\ Len(iss_sun_exposures) = 3 /\ Len(http.sun_exposures) = 2
    /\ now = MaxNow
    /\ http.sun_exposures[2].end = EpochSecond(now)
    /\ http.sun_exposures[2].start.text < http.sun_exposures[2].end

\* C11: the commits of a run of committed samples that all carry the same
\* visibility, failed cycles in between or not, make at most one event durable.
C11_RunAppendsAtMostOneEvent == run_events <= 1

\* The cycle in flight has looked up the most recent event.
Looked == pc = "select" /\ pc' = "insert_position"

\* The cycle in flight passes from its decision to its commit.
Decided == pc = "decide" /\ pc' = "commit"

\* The marker of the most recent event the poller's connection reads, "" for
\* an empty log.
LastMarker == IF Len(ConnExposures) = 0 THEN "" ELSE Last(ConnExposures).window

EventHasSnapshot ==
    \A i \in 1..Len(iss_sun_exposures) :
        \E j \in 1..Len(iss_positions) :
            iss_positions[j].timestamp = iss_sun_exposures[i].timestamp

Committed == pc = "commit" /\ pc' = "sleep" /\ iss_positions' # iss_positions

\* C14: after a shutdown whose reconciler deleted a dangling start, the
\* process starts again on a log with no open window, and the first daylight
\* sample committed after the restart appends a start with its own timestamp.
C14_FreshWindowAfterRestart ==
    [][ /\ (reconciled = "deleted" /\ proc = "stopped" /\ proc' = "running") =>
               (Len(iss_sun_exposures) = 0 \/ Last(iss_sun_exposures).window # "start")
        /\ (reconciled = "restarted" /\ Committed /\ data.visibility = "daylight") =>
               /\ Len(iss_sun_exposures') = Len(iss_sun_exposures) + 1
               /\ Last(iss_sun_exposures').window = "start"
               /\ Last(iss_sun_exposures').timestamp = ToText(data.timestamp) ]_vars

\* GET /iss/position answers.
PositionCall == http = None /\ http' # None /\ http'.kind \in {"position", "message"}

\* C15: GET /iss/position returns the latitude and longitude of the row
\* inserted last, whatever the timestamps of the rows, and the message
\* "No position data available" exactly when the position log is empty.
C15_LatestIsLastInserted ==
    [][ PositionCall =>
          /\ (http' = NoPosition) <=> (iss_positions = <<>>)
          /\ iss_positions # <<>> =>
                http' = [kind |-> "position",
                         latitude |-> Last(iss_positions).latitude,
                         longitude |-> Last(iss_positions).longitude] ]_vars

\* A seeded row A of latitude 20 and a later timestamp, then the poller's row
\* B of latitude 10: the answer is B.
C15_Witness ==
    /\ Len(iss_positions) = 2
    /\ iss_positions[1].latitude = 20 /\ iss_positions[1].timestamp = ToText(1)
    /\ iss_positions[2].latitude = 10 /\ iss_positions[2].timestamp = ToText(0)
    /\ pc = "sleep"
    /\ http # None /\ http.kind = "position" /\ http.latitude = 10

\* An endpoint of /2d-polygons answers a call of the given kind.
PolygonCall(op) ==
    /\ http = None /\ http' # None
    /\ http'.kind = "2d-polygons" /\ http'.call.op = op

Stored(uuid) == \E i \in 1..Len(polygons) : polygons[i].uuid = uuid
Without(uuid) == SelectSeq(polygons, LAMBDA r : r.uuid # uuid)
Valid2D == {Square, Triangle}

\* C16: the polygon table changes only by a POST of a valid 2D WKT under a
\* uuid not stored, which appends that polygon, and by a DELETE, which removes
\* the polygon of its uuid; GET /2d-polygons answers with the stored polygons
\* in insertion order, GET /2d-polygons/{uuid} with the polygon of that uuid
\* or "No polygon with the given uuid exists"; a POST of an invalid WKT
\* stores nothing and answers "The wkt string is not a valid 2D polygon".
C16_PolygonSet ==
    [][ /\ PolygonCall("POST") =>
              LET polygon == http'.call.polygon IN
              /\ polygons' = (IF polygon.wkt \in Valid2D /\ ~Stored(polygon.uuid)
                              THEN Append(polygons, polygon) ELSE polygons)
              /\ polygon.wkt \notin Valid2D =>
                    http'.body = Message("The wkt string is not a valid 2D polygon")
        /\ PolygonCall("DELETE") => polygons' = Without(http'.call.uuid)
        /\ PolygonCall("LIST") =>
              http'.body = [kind |-> "polygons", polygons |-> polygons]
        /\ PolygonCall("GET") =>
              LET uuid == http'.call.uuid IN
              IF Stored(uuid)
              THEN \E i \in 1..Len(polygons) :
                      /\ polygons[i].uuid = uuid
                      /\ http'.body = [kind |-> "polygon", uuid |-> uuid,
                                       color |-> polygons[i].color,
                                       wkt |-> polygons[i].wkt]
              ELSE http'.body = Message("No polygon with the given uuid exists")
        /\ polygons' # polygons => (PolygonCall("POST") \/ PolygonCall("DELETE"))
      ]_vars

\* C17: DELETE /2d-polygons/{uuid} answers with the uuid and removes the
\* polygon of that uuid, and no other, when one is stored; it answers
\* "No affected rows" and leaves the table as it is when none is.
C17_DeleteExactlyThat ==
    [][ PolygonCall("DELETE") =>
          LET uuid == http'.call.uuid IN
          IF Stored(uuid)
          THEN /\ http'.body = Message(uuid)
               /\ polygons' = Without(uuid)
               /\ Len(polygons') = Len(polygons) - 1
          ELSE /\ http'.body = Message("No affected rows")
               /\ polygons' = polygons ]_vars

\* C18: while the trailing start left by a crash is still the last event, no
\* step appends a second start: the event log stays as it is, or the commit
\* of a sample that is not daylight appends the end stamped by that sample,
\* or shutdown_event deletes that start; the log alternates after every such
\* step, and GET /iss/sun answers with one open window starting at that start.
C18_OpenWindowSurvivesCrash ==
    [][ (crashed /\ Alternates(iss_sun_exposures)) =>
          /\ \/ iss_sun_exposures' = iss_sun_exposures
             \/ /\ Committed /\ data.visibility # "daylight"
                /\ Len(iss_sun_exposures') = Len(iss_sun_exposures) + 1
                /\ Front(iss_sun_exposures') = iss_sun_exposures
                /\ Last(iss_sun_exposures').window = "end"
                /\ Last(iss_sun_exposures').timestamp = ToText(data.timestamp)
             \/ /\ sd_pc = "delete" /\ sd_pc' = "done"
                /\ iss_sun_exposures' = Front(iss_sun_exposures)
          /\ Alternates(iss_sun_exposures')
          /\ SunCall =>
                /\ http'.kind = "sun_exposures"
                /\ Len(http'.sun_exposures) = (Len(iss_sun_exposures) + 1) \div 2
                /\ Last(http'.sun_exposures).start = Last(iss_sun_exposures).timestamp
      ]_vars

\* C19: no step rewrites a row. The position log only grows at its end; the
\* event log only grows at its end, except that shutdown_event may remove
\* its last row when that row is a start; an endpoint call changes neither.
C19_RowsAreNeverRewritten ==
    [][ /\ Len(iss_positions') >= Len(iss_positions)
        /\ SubSeq(iss_positions', 1, Len(iss_positions)) = iss_positions
        /\ \/ /\ Len(iss_sun_exposures') >= Len(iss_sun_exposures)
              /\ SubSeq(iss_sun_exposures', 1, Len(iss_sun_exposures)) = iss_sun_exposures
           \/ /\ sd_pc = "delete" /\ sd_pc' = "done"
              /\ Len(iss_sun_exposures) > 0
              /\ Last(iss_sun_exposures).window = "start"
              /\ iss_sun_exposures' = Front(iss_sun_exposures)
        /\ (http = None /\ http' # None) => UNCHANGED <<iss_positions, iss_sun_exposures>>
      ]_vars

\* C20: the poller thread sleeps with no uncommitted write on its connection.
C20_NoWriteHeldInSleep == pc = "sleep" => ~in_transaction

====
